---- MODULE Spec2Model ----
(***************************************************************************)
(* Model of astrokat/noisediode.py: the noise-diode operations on, off,    *)
(* trigger and pattern, the fleet synchroniser _set_dig_nd_ and the reply  *)
(* parser _katcp_reply_.                                                   *)
(*                                                                         *)
(* Time is counted in ticks of 1/6 second (Sec(1) = 6), so that the mean   *)
(* of up to three acknowledged timestamps that differ by whole seconds is  *)
(* an exact number of ticks.  Strings are sequences of character codes,    *)
(* so that sorted(), split(","), join, strip() and the substring test      *)
(* `in` are computed as Python computes them.  Optional arguments are      *)
(* sequences of length 0 (None) or 1.  A fraction is a pair <<num, den>>   *)
(* in lowest terms.                                                        *)
(***************************************************************************)
EXTENDS Integers, Sequences, FiniteSets, TLC

VARIABLES
    kat,        \* the session container: dry_run, ants (names, in container order), sub_band
    now,        \* time.time(), in ticks
    call,       \* the operation called and its arguments ("idle" before the call)
    events,     \* what the call did, in order: requests sent, sleeps, warnings and errors logged
    ret,        \* the value returned (<<>> when nothing was returned)
    err,        \* the exception that left the call ("none" when it returned)
    nd_setup    \* the caller's nd_setup dict after the call (<<>> when the call took none)

vars == <<kat, now, call, events, ret, err, nd_setup>>

-----------------------------------------------------------------------------
(* Units and elementary values *)

Sec(s) == 6 * s

None == <<>>
Some(v) == <<v>>

\* Python truthiness of an optional number: None and 0 are falsy
Truthy(x) == x # None /\ x[1] # 0

RECURSIVE Gcd(_, _)
Gcd(a, b) == IF b = 0 THEN a ELSE Gcd(b, a % b)

\* n / d as a fraction in lowest terms (d > 0, n >= 0)
Frac(n, d) == LET g == Gcd(n, d) IN <<n \div g, d \div g>>

\* x * f for a fraction f, where the product is a whole number of ticks
MulFrac(x, f) == (x * f[1]) \div f[2]

Min(a, b) == IF a <= b THEN a ELSE b

-----------------------------------------------------------------------------
(* Strings as sequences of character codes *)

m000 == <<109, 48, 48, 48>>
m001 == <<109, 48, 48, 49>>
m002 == <<109, 48, 48, 50>>
\* "m00": no antenna's name, and a substring of the names above
m00 == <<109, 48, 48>>
SPACE == <<32>>
\* "\x1c", white space to str.strip() as the space is
FS == <<28>>
StrAll == <<97, 108, 108>>
StrCycle == <<99, 121, 99, 108, 101>>
COMMA == <<44>>
\* the characters str.strip() removes: those str.isspace() holds of (Python 3 str)
IsSpace(ch) ==
    \/ ch \in 9..13
    \/ ch \in 28..32
    \/ ch \in {133, 160, 5760, 8232, 8233, 8239, 8287, 12288}
    \/ ch \in 8192..8202

\* Python's < on str: lexicographic by code point, a proper prefix first
RECURSIVE StrLess(_, _)
StrLess(a, b) ==
    IF b = <<>> THEN FALSE
    ELSE IF a = <<>> THEN TRUE
    ELSE IF a[1] # b[1] THEN a[1] < b[1]
    ELSE StrLess(Tail(a), Tail(b))

\* insert x after the last element not greater than it (stable, as sorted() is)
RECURSIVE Insert(_, _)
Insert(x, s) ==
    IF s = <<>> THEN <<x>>
    ELSE IF StrLess(x, s[1]) THEN <<x>> \o s
    ELSE <<s[1]>> \o Insert(x, Tail(s))

\* sorted(list of str)
RECURSIVE Sorted(_)
Sorted(s) == IF s = <<>> THEN <<>> ELSE Insert(s[Len(s)], Sorted(SubSeq(s, 1, Len(s) - 1)))

\* sep.join(list), sep = ","
RECURSIVE Join(_)
Join(s) ==
    IF s = <<>> THEN <<>>
    ELSE IF Len(s) = 1 THEN s[1]
    ELSE s[1] \o COMMA \o Join(Tail(s))

\* str.split(","): always at least one piece; "" gives [""]
RECURSIVE SplitFrom(_, _)
SplitFrom(str, cur) ==
    IF str = <<>> THEN <<cur>>
    ELSE IF str[1] = COMMA[1] THEN <<cur>> \o SplitFrom(Tail(str), <<>>)
    ELSE SplitFrom(Tail(str), Append(cur, str[1]))

Split(str) == SplitFrom(str, <<>>)

RECURSIVE LStrip(_)
LStrip(s) == IF s # <<>> /\ IsSpace(s[1]) THEN LStrip(Tail(s)) ELSE s

RECURSIVE RStrip(_)
RStrip(s) == IF s # <<>> /\ IsSpace(s[Len(s)]) THEN RStrip(SubSeq(s, 1, Len(s) - 1)) ELSE s

\* str.strip()
Strip(s) == RStrip(LStrip(s))

\* Python's `a in b` on two str: a occurs in b as a contiguous substring
IsSubstring(a, b) ==
    \E i \in 1..(Len(b) - Len(a) + 1) : SubSeq(b, i, i + Len(a) - 1) = a

-----------------------------------------------------------------------------
(* The package constants imported from astrokat/__init__.py *)

\* _DEFAULT_LEAD_TIME [sec]
_DEFAULT_LEAD_TIME == Sec(5)

\* max_cycle_len(band): the band's maximum cycle length [sec]; the source documents
\* the L band's only ("must be less than 20 sec for L-band")
max_cycle_len(band) == CASE band = "l" -> Sec(20)

-----------------------------------------------------------------------------
(* The running call: its clock, its trace and the exception in flight *)

Returned(c) == c.err = "none"

Raise(c, exc) == [c EXCEPT !.err = exc]

\* user_logger.warn / warning / error (info, debug and trace lines are not recorded)
Log(c, level, msg) ==
    [c EXCEPT !.events = Append(@, [type |-> "log", level |-> level, msg |-> msg])]

\* time.sleep(secs): raises ValueError on a negative length, else the clock advances
Sleep(c, secs) ==
    LET ev == [type |-> "sleep", dur |-> secs, at |-> c.now]
    IN  IF secs < 0
        THEN Raise([c EXCEPT !.events = Append(@, ev)], "ValueError")
        ELSE [c EXCEPT !.events = Append(@, ev), !.now = @ + secs]

-----------------------------------------------------------------------------
(* The antenna's control endpoint, ped.req.dig_noise_source: an external    *)
(* collaborator.  env.beh[ant] says how the antenna answers: exc, it raises *)
(* ValueError; else it replies with nargs positional arguments, the second  *)
(* of them the actual timestamp, requested + off.  The request takes        *)
(* env.lat ticks.                                                           *)

dig_noise_source(env, ant, timestamp, on_fraction, cycle_length) ==
    LET b == env.beh[ant]
    IN  IF b.exc THEN [raised |-> TRUE, arguments |-> <<>>]
        ELSE [raised |-> FALSE,
              arguments |-> SubSeq(<<"ok", timestamp + b.off, on_fraction, cycle_length>>,
                                   1, b.nargs)]

\* getattr(kat, ant) finds the antenna's proxy
HasAnt(k, ant) == \E i \in 1..Len(k.ants) : k.ants[i] = ant

-----------------------------------------------------------------------------
(* _get_max_cycle_len, _eval_lead_time_, _set_time_ *)

_get_max_cycle_len(k) ==
    IF ~k.dry_run THEN max_cycle_len(k.sub_band) ELSE max_cycle_len("l")

\* _eval_lead_time_ testing `lead_time is None` instead of its truth value
_eval_lead_time_ZeroKept(lead_time) ==
    IF lead_time # None THEN lead_time[1] ELSE _DEFAULT_LEAD_TIME

_eval_lead_time_(lead_time) ==
    IF Truthy(lead_time) THEN lead_time[1] ELSE _DEFAULT_LEAD_TIME

_set_time_(lead_time, clock) == clock + _eval_lead_time_(lead_time)

-----------------------------------------------------------------------------
(* _nd_log_msg_ and _katcp_reply_ (called with the reply of one antenna).   *)
(* The result is [c, val]: val the timestamp returned when c has no error.  *)

\* reads arguments[1], arguments[2], arguments[3] (0-based) of the reply
_nd_log_msg_(c, reply) ==
    IF Len(reply.arguments) < 4
    THEN [c |-> Raise(c, "IndexError"), val |-> 0]
    ELSE [c |-> c, val |-> reply.arguments[2]]

\* a reply with fewer than two arguments is warned about and skipped; the
\* function then returns its local `timestamp`, which was never assigned
_katcp_reply_(c, reply) ==
    IF Len(reply.arguments) < 2
    THEN [c |-> Raise(Log(c, "warn", "Unexpected response after noise diode instruction"),
                      "UnboundLocalError"),
          val |-> 0]
    ELSE _nd_log_msg_(c, reply)

-----------------------------------------------------------------------------
(* _set_dig_nd_.  The loop state l is [c, timestamp, timestamps]: the call, *)
(* the timestamp the next request will carry, the acknowledged timestamps.  *)

RECURSIVE SumSeq(_)
SumSeq(s) == IF s = <<>> THEN 0 ELSE s[1] + SumSeq(Tail(s))

\* np.mean of a non-empty list
Mean(s) == SumSeq(s) \div Len(s)

\* ped.req.dig_noise_source(timestamp, on_fraction, cycle_length) is sent
Request(c, env, ant, timestamp, on_fraction, cycle_length) ==
    [c EXCEPT !.events = Append(@, [type |-> "req", ant |-> ant, ts |-> timestamp,
                                    on_frac |-> on_fraction, cycle_len |-> cycle_length,
                                    at |-> c.now]),
              !.now = @ + env.lat]

\* the end of one iteration that got reply r = [c, val] parsed (live) or not (dry run):
\* the timestamp is appended, and advanced by step
Collect(k, l, r, step) ==
    [c |-> r.c,
     timestamp |-> l.timestamp + step,
     timestamps |-> IF ~k.dry_run /\ Returned(r.c)
                    THEN Append(l.timestamps, r.val) ELSE l.timestamps]

\* what follows the request: on ValueError warn and `continue` (nothing appended,
\* the timestamp not advanced), else parse the reply when live
Acknowledge(k, l, c1, reply, step) ==
    IF reply.raised
    THEN [l EXCEPT !.c = Log(c1, "warn", "ValueError")]
    ELSE Collect(k, l, IF ~k.dry_run THEN _katcp_reply_(c1, reply) ELSE [c |-> c1, val |-> 0],
                 step)

\* one iteration of `for ant in sorted(nd_antennas)`
DispatchOne(k, env, l, ant, on_fraction, cycle_length, cycle) ==
    IF ~HasAnt(k, ant)
    THEN [l EXCEPT !.c = Raise(@, "AttributeError")]
    ELSE Acknowledge(k, l,
                     Request(l.c, env, ant, l.timestamp, on_fraction, cycle_length),
                     dig_noise_source(env, ant, l.timestamp, on_fraction, cycle_length),
                     IF cycle THEN MulFrac(cycle_length, on_fraction) ELSE 0)

\* the loop from position i of the sorted names; an exception ends it
RECURSIVE DispatchLoop(_, _, _, _, _, _, _, _)
DispatchLoop(k, env, l, names, i, on_fraction, cycle_length, cycle) ==
    IF i > Len(names) \/ ~Returned(l.c) THEN l
    ELSE DispatchLoop(k, env,
                      DispatchOne(k, env, l, names[i], on_fraction, cycle_length, cycle),
                      names, i + 1, on_fraction, cycle_length, cycle)

\* timestamp = np.mean(timestamps), then int(timestamp) in the message: np.mean([])
\* is nan, and int(nan) raises ValueError
MeanOf(c, timestamps) ==
    IF timestamps = <<>> THEN [c |-> Raise(c, "ValueError"), val |-> 0]
    ELSE [c |-> c, val |-> Mean(timestamps)]

\* after the loop: live, a count below n logs the synchronisation fault and the mean
\* is returned; dry run, the loop's timestamp is returned.  The result is [c, val].
Reconcile(k, n, l) ==
    IF ~Returned(l.c) THEN [c |-> l.c, val |-> 0]
    ELSE IF k.dry_run THEN [c |-> l.c, val |-> l.timestamp]
    ELSE MeanOf(IF Len(l.timestamps) < n
                THEN Log(l.c, "error", "Noise diode activation not in sync")
                ELSE l.c,
                l.timestamps)

\* SetupDispatch looping over the names in the order of the list
SetupDispatch_ListOrder(k, env, c, timestamp, setup, cycle) ==
    Reconcile(k, Len(Split(setup.antennas)),
              DispatchLoop(k, env, [c |-> c, timestamp |-> timestamp, timestamps |-> <<>>],
                           Split(setup.antennas), 1,
                           setup.on_frac, setup.cycle_len, cycle))

\* the antennas, cycle length and on fraction of a call with a setup
SetupDispatch(k, env, c, timestamp, setup, cycle) ==
    Reconcile(k, Len(Split(setup.antennas)),
              DispatchLoop(k, env, [c |-> c, timestamp |-> timestamp, timestamps |-> <<>>],
                           Sorted(Split(setup.antennas)), 1,
                           setup.on_frac, setup.cycle_len, cycle))

\* and of a call without: every antenna of kat.ants, cycle length 1, on fraction switch
SwitchDispatch(k, env, c, timestamp, switch, cycle) ==
    Reconcile(k, Len(k.ants),
              DispatchLoop(k, env, [c |-> c, timestamp |-> timestamp, timestamps |-> <<>>],
                           Sorted(k.ants), 1, Frac(switch, 1), Sec(1), cycle))

\* nd_setup is None (<<>>) or Some(dict); the result is [c, val]
_set_dig_nd_(k, env, c, timestamp, setup, switch, cycle) ==
    IF setup # None
    THEN SetupDispatch(k, env, c, timestamp, setup[1], cycle)
    ELSE SwitchDispatch(k, env, c, timestamp, switch, cycle)

-----------------------------------------------------------------------------
(* _switch_on_off_, on, off *)

_switch_on_off_(k, env, c, timestamp, switch) ==
    _set_dig_nd_(k, env, c, timestamp, None, switch, FALSE)

\* ResolveTimestamp taking the clock's time whatever timestamp is given
ResolveTimestamp_Clock(timestamp, lead_time, clock) == _set_time_(lead_time, clock)

\* timestamp or _set_time_(lead_time)
ResolveTimestamp(timestamp, lead_time, clock) ==
    IF Truthy(timestamp) THEN timestamp[1] ELSE _set_time_(lead_time, clock)

\* OnWait returning the reconciled timestamp without waiting for it
OnWait_NoSleep(r) == r

\* the end of on: sleep until the reconciled timestamp r.val, then return it
OnWait(r) ==
    IF ~Returned(r.c) THEN r
    ELSE [c |-> Sleep(r.c, r.val - r.c.now), val |-> r.val]

\* on(kat, timestamp, lead_time): the result is [c, val]
on(k, env, c, timestamp, lead_time) ==
    OnWait(_switch_on_off_(k, env, c, ResolveTimestamp(timestamp, lead_time, c.now), 1))

\* off(kat, timestamp, lead_time): the result is [c, val]
off(k, env, c, timestamp, lead_time) ==
    _switch_on_off_(k, env, c, ResolveTimestamp(timestamp, lead_time, c.now), 0)

-----------------------------------------------------------------------------
(* pattern: the result is [c, val, setup], setup the caller's dict as the   *)
(* call leaves it                                                           *)

\* [ant.strip() for ant in nd_antennas.split(",") if ant.strip() in sb_ants]
RECURSIVE FilterAnts(_, _)
FilterAnts(pieces, sb_ants) ==
    IF pieces = <<>> THEN <<>>
    ELSE IF IsSubstring(Strip(pieces[1]), sb_ants)
         THEN <<Strip(pieces[1])>> \o FilterAnts(Tail(pieces), sb_ants)
         ELSE FilterAnts(Tail(pieces), sb_ants)

\* the value nd_setup['antennas'] is given before the dispatch
ResolveAntennas(nd_antennas, sb_ants) ==
    IF nd_antennas = StrAll \/ nd_antennas = StrCycle THEN sb_ants
    ELSE Join(FilterAnts(Split(nd_antennas), sb_ants))

\* the end of pattern: sleep until the reconciled timestamp r.val, return True
PatternWait(r, setup) ==
    IF ~Returned(r.c) THEN [c |-> r.c, val |-> FALSE, setup |-> setup]
    ELSE [c |-> Sleep(r.c, r.val - r.c.now), val |-> TRUE, setup |-> setup]

\* pattern once the cycle length is accepted; setup holds the resolved antennas
PatternDispatch(k, env, c, setup, cycle, lead) ==
    PatternWait(_set_dig_nd_(k, env, Log(c, "warning", "Request: Set noise diode pattern"),
                           _set_time_(Some(lead), c.now), Some(setup), 0, cycle),
                setup)

\* pattern without its cycle-length check
pattern_Unchecked(k, env, c, setup, lead_time) ==
    PatternDispatch(k, env, c,
                    [setup EXCEPT !.antennas = ResolveAntennas(@, Join(k.ants))],
                    setup.antennas = StrCycle,
                    _eval_lead_time_(lead_time))

pattern(k, env, c, setup, lead_time) ==
    IF setup.cycle_len > _get_max_cycle_len(k)
    THEN [c |-> Raise(c, "RuntimeError"), val |-> FALSE, setup |-> setup]
    ELSE PatternDispatch(k, env, c,
                         [setup EXCEPT !.antennas = ResolveAntennas(@, Join(k.ants))],
                         setup.antennas = StrCycle,
                         _eval_lead_time_(lead_time))

-----------------------------------------------------------------------------
(* trigger: the result is [c, val].  Its first half leaves p = [c, off_time] *)

\* TriggerSleep sleeping the whole remainder instead of at most the lead time
TriggerSleep_Remainder(r, dur, lead) ==
    IF ~Returned(r.c) THEN [c |-> r.c, off_time |-> 0]
    ELSE [c |-> Sleep(r.c, dur - lead), off_time |-> r.val + dur]

\* TriggerSleep sleeping the lead time whatever remains of the duration
TriggerSleep_Lead(r, dur, lead) ==
    IF ~Returned(r.c) THEN [c |-> r.c, off_time |-> 0]
    ELSE [c |-> Sleep(r.c, lead), off_time |-> r.val + dur]

\* duration > lead_time, after on returned r: sleep min(duration - lead_time, lead_time)
TriggerSleep(r, dur, lead) ==
    IF ~Returned(r.c) THEN [c |-> r.c, off_time |-> 0]
    ELSE [c |-> Sleep(r.c, Min(dur - lead, lead)), off_time |-> r.val + dur]

\* TriggerPatternSet asking for off at once, without the lead time
TriggerPatternSet_NoLead(p, lead) ==
    [c |-> p.c, off_time |-> p.c.now]

\* duration <= lead_time, after pattern returned: off_time = _set_time_(lead_time)
TriggerPatternSet(p, lead) ==
    [c |-> p.c, off_time |-> _set_time_(Some(lead), p.c.now)]

\* the setup trigger builds, noted in the trace as pattern's arguments
TriggerSetup(dur, cycle_len) ==
    [antennas |-> StrAll, cycle_len |-> cycle_len, on_frac |-> Frac(dur, cycle_len)]

CallPattern(c, setup, lead) ==
    [c EXCEPT !.events = Append(@, [type |-> "pattern", setup |-> setup, lead_time |-> lead])]

TriggerFirst(k, env, c, dur, lead) ==
    IF dur > lead
    THEN TriggerSleep(on(k, env, c, Some(_set_time_(Some(lead), c.now)), Some(_DEFAULT_LEAD_TIME)),
                      dur, lead)
    ELSE TriggerPatternSet(
             pattern(k, env,
                     CallPattern(c, TriggerSetup(dur, _get_max_cycle_len(k)), lead),
                     TriggerSetup(dur, _get_max_cycle_len(k)), Some(lead)),
             lead)

\* TriggerWait returning as soon as off is dispatched
TriggerWait_NoSleep(r, off_time) ==
    IF ~Returned(r.c) THEN [c |-> r.c, val |-> FALSE]
    ELSE [c |-> r.c, val |-> TRUE]

\* the end of trigger: sleep until off_time, return True
TriggerWait(r, off_time) ==
    IF ~Returned(r.c) THEN [c |-> r.c, val |-> FALSE]
    ELSE [c |-> Sleep(r.c, off_time - r.c.now), val |-> TRUE]

\* off(kat, timestamp=off_time), then the wait
TriggerOff(k, env, p) ==
    IF ~Returned(p.c) THEN [c |-> p.c, val |-> FALSE]
    ELSE TriggerWait(off(k, env, p.c, Some(p.off_time), Some(_DEFAULT_LEAD_TIME)), p.off_time)

\* trigger taking an unset duration for a duration of 0
trigger_UnsetIsZero(k, env, c, duration, lead_time) ==
    TriggerOff(k, env, TriggerFirst(k, env, c, IF duration = None THEN 0 ELSE duration[1],
                                    _eval_lead_time_(lead_time)))

trigger(k, env, c, duration, lead_time) ==
    IF duration = None THEN [c |-> c, val |-> TRUE]
    ELSE TriggerOff(k, env, TriggerFirst(k, env, c, duration[1], _eval_lead_time_(lead_time)))

-----------------------------------------------------------------------------
(* Bounds and the inputs drawn *)

\* time.time() when the call is made [sec]
StartTime == 100

\* a request to an antenna takes 0..MaxLatency seconds
MaxLatency == 1

\* an antenna's actual timestamp is within MaxSkew seconds of the requested one
MaxSkew == 1

KatAnts == {<<m001>>, <<m001, m000>>, <<m002, m000, m001>>}

Bands == {"l"}

Behaviours ==
    [exc : {FALSE}, nargs : {4}, off : {Sec(x) : x \in (-MaxSkew)..MaxSkew}]
    \cup [exc : {TRUE}, nargs : {0}, off : {0}]
    \cup [exc : {FALSE}, nargs : {1, 2}, off : {0}]

AntSet(k) == {k.ants[i] : i \in 1..Len(k.ants)}

Envs(k) == [beh : [AntSet(k) -> Behaviours], lat : {Sec(x) : x \in 0..MaxLatency}]

LeadTimes == {None, Some(0), Some(Sec(1)), Some(Sec(5)), Some(Sec(25))}

\* (timestamp, lead_time) of on and off: a lead time matters only without a timestamp
OnOffArgs(clock) ==
    [timestamp : {None, Some(0)}, lead_time : LeadTimes]
    \cup [timestamp : {Some(clock - Sec(1)), Some(clock + Sec(3))}, lead_time : {None}]

Durations == {None, Some(0), Some(Sec(2)), Some(Sec(5)), Some(Sec(24)), Some(Sec(30))}

\* the explicit lists: "m000", "m001,m000", "m000,m00", "m000," and " m001\x1c"
Setups ==
    [antennas : {StrAll, StrCycle, m000, Join(<<m001, m000>>), Join(<<m000, m00>>),
                 m000 \o COMMA, SPACE \o m001 \o FS},
     cycle_len : {Sec(4), Sec(20), Sec(21)},
     on_frac : {Frac(1, 2)}]

PatternLeadTimes == {None, Some(Sec(1)), Some(Sec(25))}

-----------------------------------------------------------------------------
(* The state machine: the context is fixed at construction, then one call   *)
(* of an operation runs from start to finish                                *)

Init ==
    /\ kat \in [dry_run : BOOLEAN, ants : KatAnts, sub_band : Bands]
    /\ now = Sec(StartTime)
    /\ call = [op |-> "idle"]
    /\ events = <<>>
    /\ ret = None
    /\ err = "none"
    /\ nd_setup = None

Start == [now |-> now, events |-> <<>>, err |-> "none"]

\* the call ends: it returned val, or the exception c.err left it
Finish(c, val, setup) ==
    /\ now' = c.now
    /\ events' = c.events
    /\ err' = c.err
    /\ ret' = IF Returned(c) THEN Some(val) ELSE None
    /\ nd_setup' = setup
    /\ UNCHANGED kat

On ==
    /\ call.op = "idle"
    /\ \E env \in Envs(kat), a \in OnOffArgs(now) :
         LET r == on(kat, env, Start, a.timestamp, a.lead_time)
         IN  /\ call' = [op |-> "on", env |-> env, t0 |-> now,
                         timestamp |-> a.timestamp, lead_time |-> a.lead_time]
             /\ Finish(r.c, r.val, None)

Off ==
    /\ call.op = "idle"
    /\ \E env \in Envs(kat), a \in OnOffArgs(now) :
         LET r == off(kat, env, Start, a.timestamp, a.lead_time)
         IN  /\ call' = [op |-> "off", env |-> env, t0 |-> now,
                         timestamp |-> a.timestamp, lead_time |-> a.lead_time]
             /\ Finish(r.c, r.val, None)

Trigger ==
    /\ call.op = "idle"
    /\ \E env \in Envs(kat), duration \in Durations, lead_time \in LeadTimes :
         LET r == trigger(kat, env, Start, duration, lead_time)
         IN  /\ call' = [op |-> "trigger", env |-> env, t0 |-> now,
                         duration |-> duration, lead_time |-> lead_time]
             /\ Finish(r.c, r.val, None)

Pattern ==
    /\ call.op = "idle"
    /\ \E env \in Envs(kat), setup \in Setups, lead_time \in PatternLeadTimes :
         LET r == pattern(kat, env, Start, setup, lead_time)
         IN  /\ call' = [op |-> "pattern", env |-> env, t0 |-> now,
                         setup |-> setup, lead_time |-> lead_time]
             /\ Finish(r.c, r.val, Some(r.setup))

Next == On \/ Off \/ Trigger \/ Pattern

Spec == Init /\ [][Next]_vars

\* The caller repeats a call of off that returned: the same arguments, the
\* antennas answering as before, the clock where the first call left it.  The
\* second call is recorded as the first, with what the first one did.
OffAgain ==
    /\ call.op = "off"
    /\ "first" \notin DOMAIN call
    /\ err = "none"
    /\ LET r == off(kat, call.env, Start, call.timestamp, call.lead_time)
       IN  /\ call' = [op |-> "off", env |-> call.env, t0 |-> now,
                       timestamp |-> call.timestamp, lead_time |-> call.lead_time,
                       first |-> [ret |-> ret, events |-> events]]
           /\ Finish(r.c, r.val, None)

\* The caller repeats a call of pattern that returned, passing the same nd_setup
\* dict again: the dict as the first call left it.
PatternAgain ==
    /\ call.op = "pattern"
    /\ "first" \notin DOMAIN call
    /\ err = "none"
    /\ LET r == pattern(kat, call.env, Start, nd_setup[1], call.lead_time)
       IN  /\ call' = [op |-> "pattern", env |-> call.env, t0 |-> now,
                       setup |-> nd_setup[1], lead_time |-> call.lead_time,
                       first |-> [setup |-> call.setup, events |-> events]]
           /\ Finish(r.c, r.val, Some(r.setup))

NextAgain == Off \/ Pattern \/ OffAgain \/ PatternAgain

\* the calls of off and pattern, made once or twice in succession
SpecAgain == Init /\ [][NextAgain]_vars

-----------------------------------------------------------------------------
(* What the properties read off a finished call *)

Live == ~kat.dry_run

IsReq(e) == e.type = "req"
IsSleep(e) == e.type = "sleep"
IsAct(e) == e.type \in {"req", "sleep"}
IsSyncFault(e) == e.type = "log" /\ e.level = "error"

\* the requests sent, the sleeps made, and both, in order
Reqs == SelectSeq(events, IsReq)
Sleeps == SelectSeq(events, IsSleep)
Acts == SelectSeq(events, IsAct)

NumAnts == Len(kat.ants)

\* the antennas whose endpoint raises ValueError, replies short, acknowledges in full
Invalid(a) == call.env.beh[a].exc
Malformed(a) == ~call.env.beh[a].exc /\ call.env.beh[a].nargs < 2
Acked(a) == ~call.env.beh[a].exc /\ call.env.beh[a].nargs = 4

RECURSIVE SumOffsets(_)
SumOffsets(S) ==
    IF S = {} THEN 0
    ELSE LET a == CHOOSE x \in S : TRUE
         IN  call.env.beh[a].off + SumOffsets(S \ {a})

\* the timestamp a non-cyclic dispatch requested at req reconciles to: the mean of
\* the acknowledged timestamps (live, at least one acknowledged), or req (dry run)
Reconciled(req) ==
    IF kat.dry_run THEN req
    ELSE LET A == {a \in AntSet(kat) : Acked(a)}
         IN  req + SumOffsets(A) \div Cardinality(A)

\* the call was left by time.sleep refusing a negative length
RaisedInSleep ==
    /\ err = "ValueError"
    /\ events # <<>>
    /\ IsSleep(events[Len(events)])
    /\ events[Len(events)].dur < 0

\* the timestamp on / off settle on before dispatching
RequestedTimestamp ==
    IF call.timestamp # None /\ call.timestamp[1] # 0 THEN call.timestamp[1]
    ELSE call.t0 + _eval_lead_time_(call.lead_time)

\* trigger was called with a duration above / not above the resolved lead time
TriggerLong ==
    /\ call.op = "trigger"
    /\ call.duration # None
    /\ call.duration[1] > _eval_lead_time_(call.lead_time)

TriggerShort ==
    /\ call.op = "trigger"
    /\ call.duration # None
    /\ call.duration[1] <= _eval_lead_time_(call.lead_time)

\* requests take no time and every antenna acknowledges the requested timestamp
IdealHardware ==
    /\ call.env.lat = 0
    /\ \A a \in AntSet(kat) : Acked(a) /\ call.env.beh[a].off = 0

\* a synchronize ran in a call of on, off or pattern, over these names
SyncRan ==
    \/ call.op \in {"on", "off"}
    \/ call.op = "pattern" /\ call.setup.cycle_len <= _get_max_cycle_len(kat)

DispatchNames == IF call.op = "pattern" THEN Split(nd_setup[1].antennas) ELSE kat.ants

DispatchSet == {DispatchNames[i] : i \in 1..Len(DispatchNames)}

Requested(a) == \E i \in 1..Len(Reqs) : Reqs[i].ant = a

-----------------------------------------------------------------------------
(* C1 *)

\* C1: pattern called with a setup whose cycle_len is greater than
\* maxCycleLength(context) raises RuntimeError, and has sent no request to any
\* antenna and performed no sleep.
C1_LongCycleRejected ==
    (call.op = "pattern" /\ call.setup.cycle_len > _get_max_cycle_len(kat))
        => (err = "RuntimeError" /\ ret = None /\ Reqs = <<>> /\ Sleeps = <<>>)

C1_Witness ==
    /\ call.op = "pattern"
    /\ call.setup.cycle_len > _get_max_cycle_len(kat)
    /\ err = "RuntimeError"

-----------------------------------------------------------------------------
(* C2 *)

\* C2: live, when the endpoint of an antenna raises ValueError during the
\* synchronize of on, off or pattern (the other antennas acknowledging), every
\* antenna of the set is still sent its request and the operation does not raise
\* because of it: it returns, or fails only in its own later sleep.
C2_ValueErrorNonFatal ==
    (/\ Live
     /\ SyncRan
     /\ DispatchSet \subseteq AntSet(kat)
     /\ \E a \in DispatchSet : Invalid(a)
     /\ \A a \in DispatchSet : Invalid(a) \/ Acked(a))
        => (/\ \A a \in DispatchSet : Requested(a)
            /\ err = "none" \/ RaisedInSleep)

-----------------------------------------------------------------------------
(* C3 *)

\* C3: live, when one antenna of the dispatched set replies with fewer than two
\* arguments (the others acknowledging), the remaining antennas are still
\* dispatched, the synchronisation fault is logged, and synchronize returns the
\* mean of the other antennas' acknowledged timestamps.
C3_MalformedReplyNonFatal ==
    (/\ Live
     /\ SyncRan
     /\ DispatchSet \subseteq AntSet(kat)
     /\ Cardinality({a \in DispatchSet : Malformed(a)}) = 1
     /\ \E a \in DispatchSet : Acked(a)
     /\ \A a \in DispatchSet : Malformed(a) \/ Acked(a))
        => (/\ \A a \in DispatchSet : Requested(a)
            /\ \E i \in 1..Len(events) : IsSyncFault(events[i])
            /\ err = "none" \/ RaisedInSleep
            /\ (call.op \in {"on", "off"} /\ err = "none")
                   => ret = Some(Reconciled(RequestedTimestamp)))

-----------------------------------------------------------------------------
(* C4 *)

\* C4: live, whenever fewer antennas acknowledge than were dispatched (k < N, k = 0
\* included: here the others are skipped on ValueError), synchronize logs the
\* synchronisation fault and still returns to its caller.
C4_SyncFaultNonFatal ==
    (/\ Live
     /\ SyncRan
     /\ DispatchSet \subseteq AntSet(kat)
     /\ \E a \in DispatchSet : Invalid(a)
     /\ \A a \in DispatchSet : Invalid(a) \/ Acked(a))
        => (/\ \E i \in 1..Len(events) : IsSyncFault(events[i])
            /\ err = "none" \/ RaisedInSleep)

-----------------------------------------------------------------------------
(* C5 *)

\* the first n acts are requests to the sorted antennas, at timestamp ts with
\* on fraction frac and cycle length len
RequestsAt(first, ts, frac, len) ==
    \A i \in 1..NumAnts :
        /\ IsReq(Acts[first + i - 1])
        /\ Acts[first + i - 1].ant = Sorted(kat.ants)[i]
        /\ Acts[first + i - 1].ts = ts
        /\ Acts[first + i - 1].on_frac = frac
        /\ Acts[first + i - 1].cycle_len = len

\* C5: a trigger with duration > leadTime that returns has, in this order: sent
\* switch-on to every antenna with timestamp now + leadTime; slept until the
\* reconciled on-time; slept min(duration - leadTime, leadTime); sent switch-off to
\* every antenna with timestamp reconciled on-time + duration; and it has not
\* returned before that off-time.
C5_TriggerLongOrder ==
    (TriggerLong /\ err = "none")
        => LET lead == _eval_lead_time_(call.lead_time)
               dur == call.duration[1]
               on_time == Reconciled(call.t0 + lead)
               n == NumAnts
           IN  /\ Len(Acts) = 2 * n + 3
               /\ RequestsAt(1, call.t0 + lead, <<1, 1>>, Sec(1))
               /\ IsSleep(Acts[n + 1])
               /\ Acts[n + 1].at + Acts[n + 1].dur = on_time
               /\ IsSleep(Acts[n + 2])
               /\ Acts[n + 2].dur = Min(dur - lead, lead)
               /\ RequestsAt(n + 3, on_time + dur, <<0, 1>>, Sec(1))
               /\ IsSleep(Acts[2 * n + 3])
               /\ Acts[2 * n + 3].at + Acts[2 * n + 3].dur = on_time + dur
               /\ now >= on_time + dur
               /\ ret = Some(TRUE)

\* a live trigger(30 s, 5 s) returned although an antenna acknowledged another
\* timestamp than the requested one
C5_Witness ==
    /\ TriggerLong
    /\ err = "none"
    /\ Live
    /\ call.duration = Some(Sec(30))
    /\ Reconciled(call.t0 + _eval_lead_time_(call.lead_time))
           # call.t0 + _eval_lead_time_(call.lead_time)

-----------------------------------------------------------------------------
(* C6 *)

\* C6 as stated: trigger(duration = 30, leadTime = 5), requests taking no time and
\* the hardware acknowledging the requested timestamps, returns 30 s after it was
\* entered.
C6_ElapsedIsDuration ==
    (/\ call.op = "trigger"
     /\ call.duration = Some(Sec(30))
     /\ call.lead_time = Some(Sec(5))
     /\ IdealHardware)
        => (err = "none" /\ now - call.t0 = Sec(30))

\* C6 as amended: under the same conditions a trigger with duration > leadTime
\* returns leadTime + duration after it was entered, 35 s for trigger(30, 5): the
\* diode is on for the duration, after the lead time.
C6_ElapsedIsLeadPlusDuration ==
    (TriggerLong /\ IdealHardware)
        => (/\ err = "none"
            /\ now - call.t0 = _eval_lead_time_(call.lead_time) + call.duration[1]
            /\ (call.duration = Some(Sec(30)) /\ call.lead_time = Some(Sec(5)))
                   => now - call.t0 = Sec(35))

C6_Witness ==
    /\ call.op = "trigger"
    /\ call.duration = Some(Sec(30))
    /\ call.lead_time = Some(Sec(5))
    /\ IdealHardware
    /\ Live
    /\ err = "none"

-----------------------------------------------------------------------------
(* C7 *)

IsPatternCall(e) == e.type = "pattern"

PatternCalls == SelectSeq(events, IsPatternCall)

\* C7: a trigger with duration <= leadTime invokes pattern with antennas = 'all',
\* cycle_len = maxCycleLength(context) and on_frac = duration / cycle_len (the
\* requests of the pattern carry these); once pattern has returned, switch-off is
\* sent to every antenna with timestamp (the time of that moment + leadTime), and
\* trigger does not return before that off-time.
C7_TriggerShortOrder ==
    TriggerShort
        => LET lead == _eval_lead_time_(call.lead_time)
               dur == call.duration[1]
               max == _get_max_cycle_len(kat)
               n == NumAnts
           IN  /\ Len(PatternCalls) = 1
               /\ IsPatternCall(events[1])
               /\ events[1].setup.antennas = StrAll
               /\ events[1].setup.cycle_len = max
               /\ events[1].setup.on_frac[1] * max = dur * events[1].setup.on_frac[2]
               /\ events[1].lead_time = lead
               /\ \A i \in 1..Len(Reqs) :
                      Reqs[i].cycle_len = max
                          => Reqs[i].on_frac[1] * max = dur * Reqs[i].on_frac[2]
               /\ err = "none"
                      => /\ Len(Acts) = 2 * n + 2
                         /\ \A i \in 1..n : IsReq(Acts[i]) /\ Acts[i].cycle_len = max
                         /\ IsSleep(Acts[n + 1])
                         /\ RequestsAt(n + 2,
                                       Acts[n + 1].at + Acts[n + 1].dur + lead,
                                       <<0, 1>>, Sec(1))
                         /\ Acts[n + 2].at = Acts[n + 1].at + Acts[n + 1].dur
                         /\ IsSleep(Acts[2 * n + 2])
                         /\ now >= Acts[n + 2].ts
                         /\ ret = Some(TRUE)

\* a live trigger(2 s, 5 s) returned, its requests having taken time
C7_Witness ==
    /\ TriggerShort
    /\ call.duration = Some(Sec(2))
    /\ call.lead_time = Some(Sec(5))
    /\ Live
    /\ call.env.lat > 0
    /\ err = "none"

-----------------------------------------------------------------------------
(* C8 *)

\* C8: a trigger with 0 < duration <= leadTime that returns has the diode on for
\* one pulse of length duration: the switch-off timestamp is not before the end
\* of the first pulse and not after the start of the second cycle of the pattern
\* (off-time - pattern start-time <= cycle_len), whatever the leadTime.  Stated
\* here for requests that take no time and acknowledge the requested timestamps.
C8_SinglePulse ==
    (TriggerShort /\ call.duration[1] > 0 /\ IdealHardware /\ err = "none")
        => LET start_time == Reqs[1].ts
               off_time == Reqs[Len(Reqs)].ts
           IN  /\ Reqs[Len(Reqs)].on_frac = <<0, 1>>
               /\ off_time >= start_time + call.duration[1]
               /\ off_time - start_time <= _get_max_cycle_len(kat)

-----------------------------------------------------------------------------
(* C9 *)

\* C9: at every suspension point of on, trigger and pattern, a negative computed
\* wait returns at once and the operation runs on to its end: no call is left by
\* an exception after a sleep of negative length.
C9_NegativeWaitReturns ==
    (\E i \in 1..Len(Sleeps) : Sleeps[i].dur < 0) => err = "none"

-----------------------------------------------------------------------------
(* C10 *)

\* C10: on sends switch-on (on fraction 1, cycle length 1) to every antenna, in a
\* call that returns it has not returned before the reconciled timestamp and
\* returns that timestamp; off sends switch-off (on fraction 0) likewise, returns
\* the reconciled timestamp and never sleeps.
C10_OnBlocksOffDoesNot ==
    /\ call.op \in {"on", "off"}
           => /\ \A i \in 1..Len(Reqs) :
                     /\ Reqs[i].ant = Sorted(kat.ants)[i]
                     /\ Reqs[i].ts = RequestedTimestamp
                     /\ Reqs[i].on_frac = (IF call.op = "on" THEN <<1, 1>> ELSE <<0, 1>>)
                     /\ Reqs[i].cycle_len = Sec(1)
              /\ err = "none"
                     => /\ Len(Reqs) = NumAnts
                        /\ ret = Some(Reconciled(RequestedTimestamp))
    /\ (call.op = "on" /\ err = "none")
           => /\ now >= ret[1]
              /\ Len(Sleeps) = 1
              /\ Sleeps[1].at + Sleeps[1].dur = ret[1]
              /\ IsSleep(events[Len(events)])
    /\ call.op = "off"
           => /\ Sleeps = <<>>
              /\ now = call.t0 + Len(Reqs) * call.env.lat

\* a live on returned after a wait, its reconciled timestamp not the requested one
C10_Witness ==
    /\ call.op = "on"
    /\ Live
    /\ err = "none"
    /\ Sleeps[1].dur > 0
    /\ ret[1] # RequestedTimestamp

-----------------------------------------------------------------------------
(* C11 *)

\* pattern was called with an explicit list and went on to its dispatch
ExplicitList ==
    /\ call.op = "pattern"
    /\ call.setup.antennas \notin {StrAll, StrCycle}
    /\ call.setup.cycle_len <= _get_max_cycle_len(kat)

\* C11: pattern called with an explicit comma-separated list sends requests only
\* to exact names of antennas of the subarray, and the entries of the list that
\* are no such name (a substring of a name, an empty entry, a list that names no
\* antenna of the subarray) cause no failure: the lookup of an antenna never fails.
C11_OnlySubarrayAntennas ==
    ExplicitList
        => /\ \A i \in 1..Len(Reqs) : Reqs[i].ant \in AntSet(kat)
           /\ err # "AttributeError"

-----------------------------------------------------------------------------
(* C12 *)

\* the call is the second of two successive calls
Second == "first" \in DOMAIN call

\* the advance of a cyclic dispatch before its i-th request: cycle_len * on_frac
\* for each earlier antenna that did not raise ValueError
Advance(i) ==
    MulFrac(call.setup.cycle_len, call.setup.on_frac)
        * Cardinality({j \in 1..(i - 1) : ~Invalid(Reqs[j].ant)})

\* C12: pattern leaves the caller's setup record as it was passed, so that the
\* second of two successive calls of pattern with the same record, its antennas
\* field 'cycle' at the first call, is passed 'cycle' again and dispatches with
\* cycle = true: its requests carry staggered timestamps.
C12_SetupUnchanged ==
    (/\ call.op = "pattern"
     /\ Second
     /\ call.first.setup.antennas = StrCycle)
        => /\ call.setup = call.first.setup
           /\ \A i \in 1..Len(Reqs) : Reqs[i].ts = Reqs[1].ts + Advance(i)

-----------------------------------------------------------------------------
(* C13 *)

\* the fraction <<num, den>> lies in [0, 1]
InUnitInterval(f) == 0 <= f[1] /\ f[1] <= f[2]

\* C13: every request sent to an antenna by on, off, trigger or pattern carries
\* an on fraction in [0, 1], and so does the setup trigger builds for
\* duration <= leadTime, for every duration and lead time.
C13_OnFractionInUnitInterval ==
    /\ \A i \in 1..Len(Reqs) : InUnitInterval(Reqs[i].on_frac)
    /\ \A i \in 1..Len(PatternCalls) : InUnitInterval(PatternCalls[i].setup.on_frac)

-----------------------------------------------------------------------------
(* C14 *)

\* C14: trigger called with duration unset (None) returns True at once: it has
\* sent no request, made no sleep, and the clock is where it was at the call.
C14_UnsetDurationNoOp ==
    (call.op = "trigger" /\ call.duration = None)
        => /\ ret = Some(TRUE)
           /\ err = "none"
           /\ Reqs = <<>>
           /\ Sleeps = <<>>
           /\ PatternCalls = <<>>
           /\ now = call.t0

\* a live trigger(None) with a lead time given and antennas that take time
C14_Witness ==
    /\ call.op = "trigger"
    /\ call.duration = None
    /\ call.lead_time = Some(Sec(1))
    /\ call.env.lat > 0
    /\ Live
    /\ ret = Some(TRUE)

-----------------------------------------------------------------------------
(* C15 *)

\* what request e commands: the antenna, the timestamp, the on fraction and the
\* cycle length
Command(e) == [ant |-> e.ant, ts |-> e.ts, on_frac |-> e.on_frac, cycle_len |-> e.cycle_len]

\* the commands among the events evs, in order
RECURSIVE Commands(_)
Commands(evs) ==
    IF evs = <<>> THEN <<>>
    ELSE IF IsReq(evs[1]) THEN <<Command(evs[1])>> \o Commands(Tail(evs))
    ELSE Commands(Tail(evs))

\* C15 as stated: the second of two successive calls of off with the same
\* timestamp given, the antennas acknowledging the same way, returns the
\* reconciled timestamp the first returned and sends the commands the first sent.
C15_OffTwiceSame ==
    (call.op = "off" /\ Second /\ call.timestamp # None)
        => /\ err = "none"
           /\ ret = call.first.ret
           /\ Commands(events) = Commands(call.first.events)

\* C15 as amended: so it is when the timestamp given is not 0.  A timestamp of 0
\* is taken as unset: each call then commands its own clock time + lead time.
C15_OffTwiceSameNonZero ==
    (call.op = "off" /\ Second)
        => /\ Truthy(call.timestamp)
               => /\ err = "none"
                  /\ ret = call.first.ret
                  /\ Commands(events) = Commands(call.first.events)
           /\ ~Truthy(call.timestamp)
               => \A i \in 1..Len(Reqs) :
                      Reqs[i].ts = call.t0 + _eval_lead_time_(call.lead_time)

\* live, off was called a second time with a timestamp after the clock had
\* moved, and returned a reconciled timestamp that is not the one given
C15_Witness ==
    /\ call.op = "off"
    /\ Second
    /\ Live
    /\ Truthy(call.timestamp)
    /\ call.env.lat > 0
    /\ err = "none"
    /\ ret # call.timestamp
    /\ Len(Reqs) > 1

-----------------------------------------------------------------------------
(* C16 *)

\* the call resolved its lead_time argument and sent a request for the clock's
\* time + the resolved lead time: on and off given no timestamp, and pattern
LeadTimeUsed ==
    /\ \/ call.op \in {"on", "off"} /\ call.timestamp = None
       \/ call.op = "pattern"
    /\ Reqs # <<>>

\* the lead time the call resolved, read off its first request
ResolvedLeadTime == Reqs[1].ts - call.t0

\* C16 as stated: for every leadTime >= 0 the resolved lead time is leadTime, and
\* for leadTime 0 or unset it is the default lead time.
C16_ResolveAllNonNegative ==
    LeadTimeUsed
        => /\ (call.lead_time # None /\ call.lead_time[1] >= 0)
               => ResolvedLeadTime = call.lead_time[1]
           /\ (call.lead_time = None \/ call.lead_time = Some(0))
               => ResolvedLeadTime = _DEFAULT_LEAD_TIME

\* C16 as amended: for every leadTime > 0 the resolved lead time is leadTime, and
\* for leadTime 0 or unset it is the default lead time.
C16_ResolvePositive ==
    LeadTimeUsed
        => /\ (call.lead_time # None /\ call.lead_time[1] > 0)
               => ResolvedLeadTime = call.lead_time[1]
           /\ (call.lead_time = None \/ call.lead_time = Some(0))
               => ResolvedLeadTime = _DEFAULT_LEAD_TIME

\* on was called with lead_time = 0 and no timestamp, and sent a request
C16_Witness ==
    /\ call.op = "on"
    /\ call.timestamp = None
    /\ call.lead_time = Some(0)
    /\ Reqs # <<>>
    /\ ResolvedLeadTime = _DEFAULT_LEAD_TIME

-----------------------------------------------------------------------------
(* C17 *)

\* pattern was called with antennas 'cycle' and went on to its cyclic dispatch
CyclicDispatch ==
    /\ call.op = "pattern"
    /\ call.setup.antennas = StrCycle
    /\ call.setup.cycle_len <= _get_max_cycle_len(kat)

\* C17: in a dispatch with cycle = true from timestamp t0, with
\* D = cycle_len * on_frac, the request to the antenna at position i of the
\* sorted names (i from 0) carries t0 + i * D, whatever became of the earlier
\* requests (acknowledged, skipped on ValueError, not acknowledged).
C17_StaggeredByPosition ==
    CyclicDispatch
        => \A i \in 1..Len(Reqs) :
               /\ Reqs[i].ant = Sorted(kat.ants)[i]
               /\ Reqs[i].ts = call.t0 + _eval_lead_time_(call.lead_time)
                                    + (i - 1) * MulFrac(call.setup.cycle_len, call.setup.on_frac)

-----------------------------------------------------------------------------
(* C18 *)

\* C18: the requests of a synchronize (in on, off or pattern) are sent in
\* lexicographic order of antenna name, none passed over, whatever the order of
\* the names in kat.ants or in the setup's list; and with cycle = false they all
\* carry the same timestamp.
C18_LexicographicOrder ==
    SyncRan
        => /\ \A i, j \in 1..Len(Reqs) : i < j => StrLess(Reqs[i].ant, Reqs[j].ant)
           /\ \A a \in DispatchSet :
                  (\E i \in 1..Len(Reqs) : StrLess(a, Reqs[i].ant)) => Requested(a)
           /\ err = "none" => \A a \in DispatchSet : Requested(a)
           /\ ~CyclicDispatch => \A i \in 1..Len(Reqs) : Reqs[i].ts = Reqs[1].ts

\* a live pattern with the list "m001,m000" on the subarray m002, m000, m001
\* returned
C18_Witness ==
    /\ call.op = "pattern"
    /\ call.setup.antennas = Join(<<m001, m000>>)
    /\ kat.ants = <<m002, m000, m001>>
    /\ Live
    /\ err = "none"
    /\ Len(Reqs) = 2

-----------------------------------------------------------------------------
(* C19 *)

\* C19: in a dry run the synchronize returns the timestamp it was called with,
\* for every antenna set, with cycle = false and with cycle = true: on and off
\* return the timestamp they requested, and pattern, which sleeps until the
\* timestamp returned, sleeps until its start time.
C19_DryRunEchoesTimestamp ==
    (kat.dry_run /\ SyncRan /\ err = "none")
        => /\ call.op \in {"on", "off"} => ret = Some(RequestedTimestamp)
           /\ call.op = "pattern"
                  => Sleeps[1].at + Sleeps[1].dur
                         = call.t0 + _eval_lead_time_(call.lead_time)

-----------------------------------------------------------------------------
(* C20 *)

Max(a, b) == IF a >= b THEN a ELSE b

\* the requests that switch the diode off
IsOffReq(e) == IsReq(e) /\ e.on_frac = <<0, 1>>

OffReqs == SelectSeq(events, IsOffReq)

\* C20: in a trigger with duration > leadTime, requests taking no time and the
\* antennas acknowledging the requested timestamps, switch-off is requested of
\* every antenna max(leadTime, duration - leadTime) before the off timestamp the
\* request carries, which is at least leadTime before it.
C20_OffSentLeadTimeAhead ==
    (TriggerLong /\ IdealHardware)
        => LET lead == _eval_lead_time_(call.lead_time)
               dur == call.duration[1]
           IN  /\ Len(OffReqs) = NumAnts
               /\ \A i \in 1..Len(OffReqs) :
                      /\ OffReqs[i].ts - OffReqs[i].at = Max(lead, dur - lead)
                      /\ OffReqs[i].ts - OffReqs[i].at >= lead
                      /\ OffReqs[i].ts = call.t0 + lead + dur

\* a live trigger(30 s, 25 s) on three antennas: less of the duration remains
\* after the on-time than the lead time
C20_Witness ==
    /\ TriggerLong
    /\ IdealHardware
    /\ Live
    /\ call.duration = Some(Sec(30))
    /\ call.lead_time = Some(Sec(25))
    /\ NumAnts = 3
    /\ Len(OffReqs) = 3

====
